---- MODULE Spec2Model ----
(***************************************************************************)
(* A model of the link-discovery engine (src/spider.py) and of the         *)
(* concurrent download manager (src/download.py).                          *)
(*                                                                         *)
(* Three subsystems share the module, each with its own specification:     *)
(*   SpecRate      RateLimiter.acquire, one caller, on a discrete clock    *)
(*   SpecScraper   UnsplashScraper.start and the discovery main loop       *)
(*   SpecDownload  FastImageDownloadManager.process_all over its pool      *)
(*   SpecSerial    process_all with a pool of one thread                   *)
(*   SpecSingle    process_all over one URL, with the default max_retries  *)
(* A specification leaves the variables of the other subsystems unchanged. *)
(***************************************************************************)
EXTENDS Integers, Sequences, FiniteSets, TLC

(***************************************************************************)
(* Bounds of the model                                                     *)
(***************************************************************************)
\* RateLimiter: the clock runs over 0..MaxTime, one tick is 0.1 s
MaxTime == 9
\* RateLimiter: how many acquire() calls are made in a run
MaxAcquires == 5
\* RateLimiter: max_requests is drawn from 1..MaxReq
MaxReq == 2
\* RateLimiter: time_window is drawn from 1..MaxWindow ticks
MaxWindow == 3
\* Scraper: MAX_SCROLL_ATTEMPTS (10000 in the source) scaled down
MaxScrollAttempts == 5
\* Scraper: the page renders at most this many download buttons
MaxLinks == 3
\* Scraper: keep_last of clean_old_images (100 in the source) scaled down
KeepLast == 2
\* Download: max_retries of the runs of the worker pool (10 in the source) scaled down
PoolRetries == 1
\* Download: the body of a URL, in chunks
ContentLen == 2
\* Download: how many files the disk can hold
MaxFiles == 7
\* Proxy rotation: how many updates of the counter are made in a run
MaxProxyOps == 4
\* Proxy rotation: how many proxies proxy_list holds
NumProxies == 2

(***************************************************************************)
(* Program constants                                                       *)
(***************************************************************************)
\* the 0.1 s safety margin of the sleep time, in ticks
Margin == 1
\* the loop gives up after this many consecutive scrolls without growth
NoLoadLimit == 3
\* AntiSpiderConfig.MAX_RETRIES
MAX_RETRIES == 3
\* AntiSpiderConfig.RETRY_BACKOFF_FACTOR
RETRY_BACKOFF_FACTOR == 2
\* the default of max_retries in download_with_retry
DefaultMaxRetries == 10
\* the cap of the exponent of the download backoff
BackoffCap == 5

Callers == {1, 2}

VARIABLES
    \* ---- RateLimiter (src/spider.py:70-101)
    clock,            \* time.time(), in ticks
    max_requests,     \* self.max_requests
    time_window,      \* self.time_window
    request_times,    \* self.request_times, oldest first
    rl_pc,            \* per caller: "idle", "sleeping", "append"
    rl_wake,          \* per caller: the time the sleep ends
    admitted,         \* history: every timestamp acquire() ever recorded
    \* ---- UnsplashScraper (src/spider.py:211-604)
    sc_pc,            \* position of start()
    save_threshold,   \* self.save_threshold
    browser,          \* "none", "open", "closed"
    page_buttons,     \* download buttons now in the DOM, oldest first
    page_loaded,      \* how many buttons the page has rendered so far
    download_links,   \* self.download_links
    total_saved_links,\* self.total_saved_links
    link_files,       \* history: the link files written, in order
    scroll_count,     \* local of run_load_more_flow
    no_load_count,    \* local of run_load_more_flow
    is_loaded,        \* local of run_load_more_flow
    current_count,    \* local of run_load_more_flow
    retry_count,      \* local of click_load_more_button and of scroll_page
    backoffs,         \* the backoff sleeps of the retry loop that ran last, in order
    scroll_results,   \* history: what every scroll_page() call returned
    stop_reason,      \* history: why the main loop ended, or why it never ran
    collected,        \* history: every link that was ever added to download_links
    cancelled_at,     \* history: where start() stood when it was cancelled
    tokens,           \* rate_limiter.acquire() calls of the retry loop that ran last
    click_result,     \* history: how click_load_more_button() ended, or "none"
    navigations,      \* history: how many times navigate_to_target() was called
    click_calls,      \* history: how many times click_load_more_button() was called
    \* ---- FastImageDownloadManager (src/download.py:16-346)
    tasks,            \* download_tasks: the URLs of one category file, in order
    max_retries,      \* max_retries of download_with_retry
    srv_name,         \* per URL: the filename the response headers resolve to
    srv_range,        \* whether the server honours a Range header
    content_len,      \* how many chunks the body of a URL has
    url_mapping,      \* self.url_mapping: per URL a path, or NoPath
    saved_mapping,    \* history: the mapping documents written by _save_mapping
    fs_names,         \* the disk: per path a file, or 0
    fs_data,          \* the disk: per file the chunks it holds
    next_task,        \* the executor's queue: the next task to hand out
    pc,               \* per worker: its position in _process_single_url
    task,             \* per worker: the task it runs
    attempt,          \* per worker: attempt of download_with_retry
    temp_path,        \* per worker: temp_path
    range_from,       \* per worker: the offset of the Range header, or NoRange
    handle,           \* per worker: the file it has open for append, or 0
    stream,           \* per worker: the chunks the response has yet to deliver
    result,           \* per worker: what download_with_retry returned
    report,           \* history, per task: how it ended
    hit,              \* history, per task: the URL was cached when it was called
    net_used,         \* history, per task: it issued a HEAD or a GET
    wrote_map,        \* history, per task: it assigned into url_mapping
    waits,            \* per worker: the base waits between its attempts so far
    scenario,         \* history: what the mapping and the disk held at the start
    produced,         \* history, per path: the URL whose download was promoted to it
    \* ---- the proxy rotation of the download workers (src/download.py:130-139, 265-267)
    current_proxy_index, \* self.current_proxy_index
    px_pc,            \* per worker: "idle", or the update it is in: "select", "advance"
    px_reg,           \* per worker: the value of the counter it has read
    px_pick,          \* per worker: the index of the proxy it selected last
    px_ops,           \* history: how many selections and retry advances have finished
    \* ---- _extract_filename_from_response (src/download.py:151-190)
    fn_disposition,   \* the Content-Disposition header: its directives, in order
    fn_segment,       \* the last segment of the path of the URL, character by character
    fn_type,          \* the Content-Type header
    fn_name           \* the filename returned, or Unresolved

rl_vars == <<clock, max_requests, time_window, request_times, rl_pc, rl_wake, admitted>>
sc_vars == <<sc_pc, save_threshold, browser, page_buttons, page_loaded, download_links,
             total_saved_links, link_files, scroll_count, no_load_count, is_loaded,
             current_count, retry_count, backoffs, scroll_results, stop_reason,
             collected, cancelled_at, tokens, click_result, navigations, click_calls>>
dl_vars == <<tasks, max_retries, srv_name, srv_range, content_len, url_mapping,
             saved_mapping, fs_names, fs_data, next_task, pc, task, attempt, temp_path,
             range_from, handle, stream, result, report, hit, net_used, wrote_map,
             waits, scenario, produced>>
px_vars == <<current_proxy_index, px_pc, px_reg, px_pick, px_ops>>
fn_vars == <<fn_disposition, fn_segment, fn_type, fn_name>>
vars == <<rl_vars, sc_vars, dl_vars, px_vars, fn_vars>>

(***************************************************************************)
(* RateLimiter                                                             *)
(***************************************************************************)

\* while self.request_times and self.request_times[0] < now - self.time_window: popleft()
RECURSIVE Prune(_, _)
Prune(q, cutoff) ==
    IF q # <<>> /\ Head(q) < cutoff THEN Prune(Tail(q), cutoff) ELSE q

\* a plausible slip: the limit is tested with > instead of >=
AtLimitOffByOne(q) == Len(q) > max_requests

\* if len(self.request_times) >= self.max_requests
AtLimit(q) == Len(q) >= max_requests

\* sleep_time = self.time_window - (now - self.request_times[0]) + 0.1
SleepTime(q, now) == time_window - (now - q[1]) + Margin

RateInit ==
    /\ clock = 0
    /\ max_requests \in 1..MaxReq
    /\ time_window \in 1..MaxWindow
    /\ request_times = <<>>
    /\ rl_pc = [c \in Callers |-> "idle"]
    /\ rl_wake = [c \in Callers |-> 0]
    /\ admitted = <<>>

RateIdle ==
    /\ clock = 0
    /\ max_requests = 1
    /\ time_window = 1
    /\ request_times = <<>>
    /\ rl_pc = [c \in Callers |-> "idle"]
    /\ rl_wake = [c \in Callers |-> 0]
    /\ admitted = <<>>

\* calls made so far: finished ones and those in progress
CallsMade == Len(admitted) + Cardinality({c \in Callers : rl_pc[c] # "idle"})

\* the wall clock advances
Tick ==
    /\ clock < MaxTime
    /\ clock' = clock + 1
    /\ UNCHANGED <<max_requests, time_window, request_times, rl_pc, rl_wake, admitted>>
    /\ UNCHANGED <<sc_vars, dl_vars, px_vars, fn_vars>>

\* a coroutine is between two suspension points of acquire(): the event loop runs
\* no other coroutine until it has appended its timestamp
Running == \E c \in Callers : rl_pc[c] = "append"

\* acquire(), from its entry to its first suspension point or to the append
AcquireEnter(c) ==
    /\ rl_pc[c] = "idle"
    /\ ~Running
    /\ CallsMade < MaxAcquires
    /\ LET now == clock
           q == Prune(request_times, now - time_window)
       IN /\ request_times' = q
          /\ IF AtLimit(q) /\ SleepTime(q, now) > 0
             THEN /\ rl_pc' = [rl_pc EXCEPT ![c] = "sleeping"]
                  /\ rl_wake' = [rl_wake EXCEPT ![c] = now + SleepTime(q, now)]
             ELSE /\ rl_pc' = [rl_pc EXCEPT ![c] = "append"]
                  /\ UNCHANGED rl_wake
    /\ UNCHANGED <<clock, max_requests, time_window, admitted>>
    /\ UNCHANGED <<sc_vars, dl_vars, px_vars, fn_vars>>

\* await asyncio.sleep(sleep_time) returns: not before the delay has passed
AcquireWake(c) ==
    /\ rl_pc[c] = "sleeping"
    /\ ~Running
    /\ clock >= rl_wake[c]
    /\ rl_pc' = [rl_pc EXCEPT ![c] = "append"]
    /\ UNCHANGED <<clock, max_requests, time_window, request_times, rl_wake, admitted>>
    /\ UNCHANGED <<sc_vars, dl_vars, px_vars, fn_vars>>

\* self.request_times.append(time.time())
AcquireAppend(c) ==
    /\ rl_pc[c] = "append"
    /\ request_times' = Append(request_times, clock)
    /\ admitted' = Append(admitted, clock)
    /\ rl_pc' = [rl_pc EXCEPT ![c] = "idle"]
    /\ UNCHANGED <<clock, max_requests, time_window, rl_wake>>
    /\ UNCHANGED <<sc_vars, dl_vars, px_vars, fn_vars>>

(***************************************************************************)
(* UnsplashScraper                                                         *)
(***************************************************************************)

SetOf(s) == {s[i] : i \in DOMAIN s}

ScraperInit ==
    /\ sc_pc = "start"
    /\ save_threshold \in 1..(MaxLinks + 1)
    /\ browser = "none"
    /\ page_buttons = <<>>
    /\ page_loaded = 0
    /\ download_links = {}
    /\ total_saved_links = 0
    /\ link_files = <<>>
    /\ scroll_count = 0
    /\ no_load_count = 0
    /\ is_loaded = FALSE
    /\ current_count = 0
    /\ retry_count = 0
    /\ backoffs = <<>>
    /\ scroll_results = <<>>
    /\ stop_reason = "none"
    /\ collected = {}
    /\ cancelled_at = "none"
    /\ tokens = 0
    /\ click_result = "none"
    /\ navigations = 0
    /\ click_calls = 0

ScraperIdle ==
    /\ sc_pc = "off"
    /\ save_threshold = 1
    /\ browser = "none"
    /\ page_buttons = <<>>
    /\ page_loaded = 0
    /\ download_links = {}
    /\ total_saved_links = 0
    /\ link_files = <<>>
    /\ scroll_count = 0
    /\ no_load_count = 0
    /\ is_loaded = FALSE
    /\ current_count = 0
    /\ retry_count = 0
    /\ backoffs = <<>>
    /\ scroll_results = <<>>
    /\ stop_reason = "none"
    /\ collected = {}
    /\ cancelled_at = "none"
    /\ tokens = 0
    /\ click_result = "none"
    /\ navigations = 0
    /\ click_calls = 0

\* the page renders k more download buttons, numbered in the order they appear
Render(k) ==
    /\ page_loaded' = page_loaded + k
    /\ page_buttons' = page_buttons \o [i \in 1..k |-> page_loaded + i]

\* how many buttons one page action may bring in
RenderChoices == {k \in 0..1 : page_loaded + k <= MaxLinks}

\* how save_links_to_file() may go: the file is written; the write fails, which is
\* caught and logged; os.makedirs fails, which is raised (it stands before the try).
\* The folder exists once a link file has been written
SaveOutcomes ==
    {"written", "write_error"} \cup (IF link_files = <<>> THEN {"mkdir_error"} ELSE {})

\* save_links_to_file(): the count is added before the write is tried
SaveLinks(outcome) ==
    IF outcome = "mkdir_error"
    THEN UNCHANGED <<total_saved_links, link_files>>
    ELSE /\ total_saved_links' = total_saved_links + Cardinality(download_links)
         /\ link_files' = IF outcome = "written"
                          THEN Append(link_files,
                                      [count |-> total_saved_links
                                                   + Cardinality(download_links),
                                       links |-> download_links])
                          ELSE link_files

\* await self.initialize(): the browser is launched and the page set up, or an
\* exception is re-raised, before or after the browser was launched
Initialize ==
    /\ sc_pc = "start"
    /\ \E outcome \in {"ok", "no_browser", "no_page"} :
         /\ browser' = IF outcome = "no_browser" THEN browser ELSE "open"
         /\ sc_pc' = IF outcome = "ok" THEN "navigate" ELSE "finally"
         /\ stop_reason' = IF outcome = "ok" THEN stop_reason ELSE "init_error"
    /\ UNCHANGED <<save_threshold, page_buttons, page_loaded, download_links,
                   total_saved_links, link_files, scroll_count, no_load_count, is_loaded,
                   current_count, retry_count, backoffs, scroll_results, collected,
                   cancelled_at>>
    /\ UNCHANGED <<tokens, click_result, navigations, click_calls>>
    /\ UNCHANGED <<rl_vars, dl_vars, px_vars, fn_vars>>

\* a plausible slip: the exception of navigate_to_target is logged and swallowed
AfterNavigateSwallow(ok) == "click"

\* start(): after navigate_to_target comes run_load_more_flow; its exception leads
\* to the finally block
AfterNavigate(ok) == IF ok THEN "click" ELSE "finally"

\* await self.navigate_to_target(): the page loads, or the exception is re-raised
NavigateToTarget ==
    /\ sc_pc = "navigate"
    /\ \E ok \in BOOLEAN :
         /\ IF ok THEN /\ \E k \in RenderChoices : Render(k)
                       /\ UNCHANGED stop_reason
                  ELSE /\ UNCHANGED <<page_buttons, page_loaded>>
                       /\ stop_reason' = "navigate_error"
         /\ sc_pc' = AfterNavigate(ok)
    /\ retry_count' = 0
    /\ backoffs' = <<>>
    /\ UNCHANGED <<save_threshold, browser, download_links, total_saved_links, link_files,
                   scroll_count, no_load_count, is_loaded, current_count, scroll_results,
                   collected, cancelled_at>>
    /\ navigations' = navigations + 1
    /\ UNCHANGED <<tokens, click_result, click_calls>>
    /\ UNCHANGED <<rl_vars, dl_vars, px_vars, fn_vars>>

\* a plausible slip: the exponent is the 0-based number of the failed attempt
BackoffTimeFromZero(n) == RETRY_BACKOFF_FACTOR ^ (n - 1)

\* backoff_time = AntiSpiderConfig.RETRY_BACKOFF_FACTOR ** retry_count
BackoffTime(n) == RETRY_BACKOFF_FACTOR ^ n

\* except Exception: retry_count += 1; below MAX_RETRIES sleep the backoff and go
\* round again (to again), else return False (to out)
RetryOrGiveUp(again, out) ==
    /\ retry_count' = retry_count + 1
    /\ IF retry_count + 1 < MAX_RETRIES
       THEN /\ backoffs' = Append(backoffs, BackoffTime(retry_count + 1))
            /\ sc_pc' = again
       ELSE /\ UNCHANGED backoffs
            /\ sc_pc' = out

\* a plausible slip: a False result of the first click ends the flow
AfterClickStopOnFalse(res) == IF res = "clicked" THEN "loop" ELSE "flow_end"

\* if not await self.click_load_more_button(): only a warning is logged; the flow
\* goes on to the scroll loop whatever the result
AfterClick(res) == "loop"

\* one pass of the retry loop of click_load_more_button(): the token is acquired
\* first, then the button is looked for. Its result is only logged
ClickLoadMoreButton ==
    /\ sc_pc = "click"
    /\ tokens' = tokens + 1
    /\ click_calls' = IF tokens = 0 THEN click_calls + 1 ELSE click_calls
    /\ \E outcome \in {"absent", "clicked", "error"} :
         CASE outcome = "absent" ->
                /\ sc_pc' = AfterClick("absent")
                /\ click_result' = "absent"
                /\ UNCHANGED <<page_buttons, page_loaded, retry_count, backoffs>>
           [] outcome = "clicked" ->
                /\ \E k \in RenderChoices : Render(k)
                /\ sc_pc' = AfterClick("clicked")
                /\ click_result' = "clicked"
                /\ UNCHANGED <<retry_count, backoffs>>
           [] outcome = "error" ->
                /\ UNCHANGED <<page_buttons, page_loaded>>
                /\ RetryOrGiveUp("click", AfterClick("failed"))
                /\ click_result' = IF retry_count + 1 < MAX_RETRIES
                                   THEN click_result ELSE "failed"
    /\ UNCHANGED <<save_threshold, browser, download_links, total_saved_links, link_files,
                   scroll_count, no_load_count, is_loaded, current_count, scroll_results,
                   stop_reason, collected, cancelled_at, navigations>>
    /\ UNCHANGED <<rl_vars, dl_vars, px_vars, fn_vars>>

\* a plausible slip: the ceiling is tested with <= instead of <
BelowCeilingOffByOne(n) == n <= MaxScrollAttempts

\* while scroll_count < self.MAX_SCROLL_ATTEMPTS
BelowCeiling(n) == n < MaxScrollAttempts

\* while scroll_count < self.MAX_SCROLL_ATTEMPTS: scroll_count += 1, and the entry
\* of scroll_page(): retry_count = 0
LoopHead ==
    /\ sc_pc = "loop"
    /\ IF BelowCeiling(scroll_count)
       THEN /\ scroll_count' = scroll_count + 1
            /\ sc_pc' = "scroll"
            /\ retry_count' = 0
            /\ backoffs' = <<>>
            /\ tokens' = 0
            /\ UNCHANGED stop_reason
       ELSE /\ UNCHANGED <<scroll_count, retry_count, backoffs, tokens>>
            /\ sc_pc' = "flow_end"
            /\ stop_reason' = "max_attempts"
    /\ UNCHANGED <<save_threshold, browser, page_buttons, page_loaded, download_links,
                   total_saved_links, link_files, no_load_count, is_loaded, current_count,
                   scroll_results, collected, cancelled_at>>
    /\ UNCHANGED <<click_result, navigations, click_calls>>
    /\ UNCHANGED <<rl_vars, dl_vars, px_vars, fn_vars>>

\* one pass of the retry loop of scroll_page(): True iff the height grew; False when
\* it did not, and when the retries are used up. A pass that raises may have
\* scrolled before it did (the exception comes from the delay or from the second
\* evaluate), so the page may have rendered more
ScrollPage ==
    /\ sc_pc = "scroll"
    /\ \E outcome \in {"grew", "same", "error"} :
         CASE outcome = "grew" ->
                /\ \E k \in RenderChoices : Render(k)
                /\ is_loaded' = TRUE
                /\ scroll_results' = Append(scroll_results, TRUE)
                /\ sc_pc' = "count"
                /\ UNCHANGED <<retry_count, backoffs>>
           [] outcome = "same" ->
                /\ UNCHANGED <<page_buttons, page_loaded>>
                /\ is_loaded' = FALSE
                /\ scroll_results' = Append(scroll_results, FALSE)
                /\ sc_pc' = "count"
                /\ UNCHANGED <<retry_count, backoffs>>
           [] outcome = "error" ->
                /\ \E k \in RenderChoices : Render(k)
                /\ RetryOrGiveUp("scroll", "count")
                /\ IF retry_count + 1 < MAX_RETRIES
                   THEN UNCHANGED <<is_loaded, scroll_results>>
                   ELSE /\ is_loaded' = FALSE
                        /\ scroll_results' = Append(scroll_results, FALSE)
    /\ UNCHANGED <<save_threshold, browser, download_links, total_saved_links, link_files,
                   scroll_count, no_load_count, current_count, stop_reason, collected,
                   cancelled_at>>
    /\ tokens' = tokens + 1
    /\ UNCHANGED <<click_result, navigations, click_calls>>
    /\ UNCHANGED <<rl_vars, dl_vars, px_vars, fn_vars>>

\* a plausible slip: growth does not reset the counter
NextNoLoadNoReset(loaded, n) == IF loaded THEN n ELSE n + 1

\* if is_loaded: no_load_count = 0  else: no_load_count += 1
NextNoLoad(loaded, n) == IF loaded THEN 0 ELSE n + 1

\* the counter update and the test "if no_load_count >= 3: break"
CountNoLoad ==
    /\ sc_pc = "count"
    /\ no_load_count' = NextNoLoad(is_loaded, no_load_count)
    /\ IF no_load_count' >= NoLoadLimit
       THEN sc_pc' = "flow_end" /\ stop_reason' = "no_more_content"
       ELSE sc_pc' = "extract" /\ UNCHANGED stop_reason
    /\ UNCHANGED <<save_threshold, browser, page_buttons, page_loaded, download_links,
                   total_saved_links, link_files, scroll_count, is_loaded, current_count,
                   retry_count, backoffs, scroll_results, collected, cancelled_at>>
    /\ UNCHANGED <<tokens, click_result, navigations, click_calls>>
    /\ UNCHANGED <<rl_vars, dl_vars, px_vars, fn_vars>>

\* extract_download_links(): the hrefs of the rendered buttons are added to the set;
\* an exception part-way is caught, and the count so far is returned
ExtractDownloadLinks ==
    /\ sc_pc = "extract"
    /\ \E n \in 0..Len(page_buttons) :
         /\ download_links' = download_links \cup SetOf(SubSeq(page_buttons, 1, n))
         /\ collected' = collected \cup SetOf(SubSeq(page_buttons, 1, n))
    /\ current_count' = Cardinality(download_links')
    /\ sc_pc' = "clean"
    /\ UNCHANGED <<save_threshold, browser, page_buttons, page_loaded, total_saved_links,
                   link_files, scroll_count, no_load_count, is_loaded, retry_count,
                   backoffs, scroll_results, stop_reason, cancelled_at>>
    /\ UNCHANGED <<tokens, click_result, navigations, click_calls>>
    /\ UNCHANGED <<rl_vars, dl_vars, px_vars, fn_vars>>

\* clean_old_images(keep_last): all but the last keep_last buttons are removed from
\* the DOM; an exception is caught and logged
CleanOldImages ==
    /\ sc_pc = "clean"
    /\ \E ok \in BOOLEAN :
         page_buttons' = IF ok /\ Len(page_buttons) > KeepLast
                         THEN SubSeq(page_buttons, Len(page_buttons) - KeepLast + 1,
                                     Len(page_buttons))
                         ELSE page_buttons
    /\ sc_pc' = "threshold"
    /\ UNCHANGED <<save_threshold, browser, page_loaded, download_links, total_saved_links,
                   link_files, scroll_count, no_load_count, is_loaded, current_count,
                   retry_count, backoffs, scroll_results, stop_reason, collected,
                   cancelled_at>>
    /\ UNCHANGED <<tokens, click_result, navigations, click_calls>>
    /\ UNCHANGED <<rl_vars, dl_vars, px_vars, fn_vars>>

\* if current_count >= self.save_threshold: save, clear, break. An exception of the
\* save is caught by the except of run_load_more_flow, which ends the flow
CheckThreshold ==
    /\ sc_pc = "threshold"
    /\ IF current_count >= save_threshold
       THEN \E outcome \in SaveOutcomes :
              /\ SaveLinks(outcome)
              /\ sc_pc' = "flow_end"
              /\ IF outcome = "mkdir_error"
                 THEN /\ stop_reason' = "exception"
                      /\ UNCHANGED download_links
                 ELSE /\ stop_reason' = "threshold"
                      /\ download_links' = {}
       ELSE /\ sc_pc' = "loop"
            /\ UNCHANGED <<download_links, total_saved_links, link_files, stop_reason>>
    /\ UNCHANGED <<save_threshold, browser, page_buttons, page_loaded, scroll_count,
                   no_load_count, is_loaded, current_count, retry_count, backoffs,
                   scroll_results, collected, cancelled_at>>
    /\ UNCHANGED <<tokens, click_result, navigations, click_calls>>
    /\ UNCHANGED <<rl_vars, dl_vars, px_vars, fn_vars>>

\* the end of run_load_more_flow(), back in start()
FlowEnd ==
    /\ sc_pc = "flow_end"
    /\ sc_pc' = "finally"
    /\ UNCHANGED <<save_threshold, browser, page_buttons, page_loaded, download_links,
                   total_saved_links, link_files, scroll_count, no_load_count, is_loaded,
                   current_count, retry_count, backoffs, scroll_results, stop_reason,
                   collected, cancelled_at>>
    /\ UNCHANGED <<tokens, click_result, navigations, click_calls>>
    /\ UNCHANGED <<rl_vars, dl_vars, px_vars, fn_vars>>

\* finally: if self.download_links: self.save_links_to_file(). An exception of the
\* save leaves the finally block at once: start() ends with it, close() is not run
FinallySave ==
    /\ sc_pc = "finally"
    /\ IF download_links # {}
       THEN \E outcome \in SaveOutcomes :
              /\ SaveLinks(outcome)
              /\ sc_pc' = IF outcome = "mkdir_error" THEN "raised" ELSE "close"
       ELSE /\ UNCHANGED <<total_saved_links, link_files>>
            /\ sc_pc' = "close"
    /\ UNCHANGED <<save_threshold, browser, page_buttons, page_loaded, download_links,
                   scroll_count, no_load_count, is_loaded, current_count, retry_count,
                   backoffs, scroll_results, stop_reason, collected, cancelled_at>>
    /\ UNCHANGED <<tokens, click_result, navigations, click_calls>>
    /\ UNCHANGED <<rl_vars, dl_vars, px_vars, fn_vars>>

\* await self.close()
Close ==
    /\ sc_pc = "close"
    /\ browser' = IF browser = "open" THEN "closed" ELSE browser
    /\ sc_pc' = "done"
    /\ UNCHANGED <<save_threshold, page_buttons, page_loaded, download_links,
                   total_saved_links, link_files, scroll_count, no_load_count, is_loaded,
                   current_count, retry_count, backoffs, scroll_results, stop_reason,
                   collected, cancelled_at>>
    /\ UNCHANGED <<tokens, click_result, navigations, click_calls>>
    /\ UNCHANGED <<rl_vars, dl_vars, px_vars, fn_vars>>

\* where start() is suspended in an await: there a cancellation of the task is
\* delivered. The counter update, the loop test and the threshold save do not await
AwaitPoints == {"start", "navigate", "click", "scroll", "extract", "clean"}

\* the task is cancelled (asyncio.run on an interrupt): CancelledError is raised at
\* the await; no "except Exception" catches it, so the finally block of start() runs
Cancel ==
    /\ sc_pc \in AwaitPoints
    /\ cancelled_at = "none"
    /\ cancelled_at' = sc_pc
    /\ stop_reason' = "cancelled"
    /\ sc_pc' = "finally"
    /\ \E b \in {browser, "open"} : browser' = IF sc_pc = "start" THEN b ELSE browser
    /\ UNCHANGED <<save_threshold, page_buttons, page_loaded, download_links,
                   total_saved_links, link_files, scroll_count, no_load_count, is_loaded,
                   current_count, retry_count, backoffs, scroll_results, collected>>
    /\ UNCHANGED <<tokens, click_result, navigations, click_calls>>
    /\ UNCHANGED <<rl_vars, dl_vars, px_vars, fn_vars>>

(***************************************************************************)
(* FastImageDownloadManager                                                *)
(***************************************************************************)

URLs == {"u1", "u2"}
\* an empty line of a category file
Blank == ""
\* the threads of the ThreadPoolExecutor
Workers == {1, 2}
\* the directory of the category being downloaded, and one of an earlier category
TaskDir == "d1"
OldDir == "d0"
Dirs == {OldDir, TaskDir}
Names == {"a", "b"}
Paths == Dirs \X Names \X {"final", "tmp"}
NoPath == <<>>
NoRange == -1
FileIds == 1..MaxFiles

\* local_path = os.path.join(keyword_dir, filename)
LocalPath(dir, name) == <<dir, name, "final">>
\* temp_path = local_path + '.tmp'
TempOf(p) == <<p[1], p[2], "tmp">>
LocalOf(tp) == <<tp[1], tp[2], "final">>
\* os.path.join(keyword_dir, Path(source_file).name)
TargetOf(src) == <<TaskDir, src[2], "final">>

\* os.path.exists(path)
Exists(p) == fs_names[p] # 0
\* os.path.getsize(path)
Size(p) == Len(fs_data[fs_names[p]])

\* a file lives while a name or an open handle refers to it
Referenced(names, handles, f) ==
    \/ \E p \in Paths : names[p] = f
    \/ \E w \in Workers : handles[w] = f
FreeId == CHOOSE f \in FileIds :
    /\ ~Referenced(fs_names, handle, f)
    /\ \A g \in FileIds : g < f => Referenced(fs_names, handle, g)
HasFreeId == \E f \in FileIds : ~Referenced(fs_names, handle, f)
Disk(names, handles, data) ==
    /\ fs_names' = names
    /\ handle' = handles
    /\ fs_data' = [f \in FileIds |-> IF Referenced(names, handles, f) THEN data[f] ELSE <<>>]

\* the body of a URL: its chunks, in order
FullStream(u) == [i \in 1..content_len |-> <<u, i>>]

\* a server that honours Range answers an offset at or past the end of the body
\* with status 416, which raise_for_status raises
RangeError(from) == from # NoRange /\ srv_range /\ from >= content_len

\* what the server streams in answer to a GET: the whole body (200), or the body
\* from the offset of the Range header on (206)
Response(u, from) ==
    IF from = NoRange \/ ~srv_range THEN FullStream(u)
    ELSE SubSeq(FullStream(u), from + 1, content_len)

\* a plausible slip: a cached URL is downloaded all the same
UseCopyNever(u) == FALSE

\* a plausible slip: a mapped URL is taken as cached whether or not its file exists
UseCopyIgnoresDisk(u) == url_mapping[u] # NoPath

\* if url in self.url_mapping: ... if os.path.exists(source_file)
UseCopy(u) == url_mapping[u] # NoPath /\ Exists(url_mapping[u])

Min(a, b) == IF a < b THEN a ELSE b

\* a plausible slip: the exponent is not capped
BaseWaitNoCap(k) == 2 ^ k

\* wait_time = (2 ** min(attempt, 5)) + random.uniform(0, 1), without the jitter
BaseWait(k) == 2 ^ Min(k, BackoffCap)

\* a plausible slip: the mapping is assigned whatever the download returned
RecordsAlways(path) == TRUE

\* if local_path:
Records(path) == path # NoPath

\* the category files: up to one URL per thread of the pool, or an empty line
TaskLists == UNION {[1..n -> URLs] : n \in 1..Cardinality(Workers)} \cup {<<Blank>>}

Scenarios == {"empty", "cached", "stale"}

\* the mapping loaded by _load_mapping
Mapping0(sc) ==
    [u \in URLs |-> IF u = "u1" /\ sc # "empty"
                    THEN LocalPath(OldDir, "a")
                    ELSE NoPath]

DownloadStart(lists, retries, len, scs) ==
    /\ tasks \in lists
    /\ max_retries = retries
    /\ srv_name \in {[u \in URLs |-> "a"], [u \in URLs |-> IF u = "u1" THEN "a" ELSE "b"]}
    /\ srv_range \in BOOLEAN
    /\ content_len = len
    /\ scenario \in scs
    /\ url_mapping = Mapping0(scenario)
    /\ saved_mapping = <<>>
    /\ fs_names = [p \in Paths |->
                     IF scenario = "cached" /\ p = Mapping0(scenario)["u1"]
                     THEN 1 ELSE 0]
    /\ fs_data = [f \in FileIds |->
                     IF scenario = "cached" /\ f = 1
                     THEN [i \in 1..len |-> <<"u1", i>>] ELSE <<>>]
    /\ next_task = 1
    /\ pc = [w \in Workers |-> "idle"]
    /\ task = [w \in Workers |-> 0]
    /\ attempt = [w \in Workers |-> 0]
    /\ temp_path = [w \in Workers |-> NoPath]
    /\ range_from = [w \in Workers |-> NoRange]
    /\ handle = [w \in Workers |-> 0]
    /\ stream = [w \in Workers |-> <<>>]
    /\ result = [w \in Workers |-> NoPath]
    /\ report = [t \in DOMAIN tasks |-> "pending"]
    /\ hit = [t \in DOMAIN tasks |-> FALSE]
    /\ net_used = [t \in DOMAIN tasks |-> FALSE]
    /\ wrote_map = [t \in DOMAIN tasks |-> FALSE]
    /\ waits = [w \in Workers |-> <<>>]
    /\ produced = [p \in Paths |-> Blank]

\* process_all over the pool
DownloadInit == DownloadStart(TaskLists, PoolRetries, ContentLen, Scenarios)

\* one URL, downloaded with the default max_retries
SingleInit == DownloadStart({<<"u1">>}, DefaultMaxRetries, ContentLen, {"empty"})

DownloadIdle ==
    /\ DownloadStart({<<Blank>>}, 1, 1, {"empty"})
    /\ srv_range
    /\ srv_name = [u \in URLs |-> "a"]

dl_inputs == <<tasks, max_retries, srv_name, srv_range, content_len, scenario>>
dl_disk == <<fs_names, fs_data, handle>>

UrlOf(w) == tasks[task[w]]

\* the worker is back in the pool; its locals are gone
Leave(w) ==
    /\ pc' = [pc EXCEPT ![w] = "idle"]
    /\ task' = [task EXCEPT ![w] = 0]
    /\ attempt' = [attempt EXCEPT ![w] = 0]
    /\ temp_path' = [temp_path EXCEPT ![w] = NoPath]
    /\ range_from' = [range_from EXCEPT ![w] = NoRange]
    /\ stream' = [stream EXCEPT ![w] = <<>>]
    /\ result' = [result EXCEPT ![w] = NoPath]
    /\ waits' = [waits EXCEPT ![w] = <<>>]

\* except requests.exceptions.RequestException: before the last attempt, wait and go
\* to the next attempt; at the last attempt, go and delete the temp file
Except(w) ==
    /\ IF attempt[w] < max_retries - 1
       THEN /\ waits' = [waits EXCEPT ![w] = Append(@, BaseWait(attempt[w]))]
            /\ attempt' = [attempt EXCEPT ![w] = @ + 1]
            /\ pc' = [pc EXCEPT ![w] = IF temp_path[w] = NoPath THEN "head" ELSE "range"]
       ELSE /\ pc' = [pc EXCEPT ![w] = "cleanup"]
            /\ UNCHANGED <<waits, attempt>>
    /\ range_from' = [range_from EXCEPT ![w] = NoRange]
    /\ stream' = [stream EXCEPT ![w] = <<>>]

\* a free thread of the pool takes the next task of the queue and runs
\* _process_single_url up to the call of download_with_retry: an empty line returns,
\* a cached URL whose file exists is copied, any other URL is downloaded
Process(w) ==
    /\ pc[w] = "idle"
    /\ \A v \in Workers : v < w => pc[v] # "idle"
    /\ next_task <= Len(tasks)
    /\ next_task' = next_task + 1
    /\ LET t == next_task
           u == tasks[t]
       IN /\ hit' = [hit EXCEPT ![t] = u # Blank /\ url_mapping[u] # NoPath
                                                /\ Exists(url_mapping[u])]
          /\ IF u = Blank
             THEN /\ report' = [report EXCEPT ![t] = "blank"]
                  /\ UNCHANGED <<dl_disk, pc, task>>
             ELSE IF UseCopy(u)
             THEN /\ url_mapping[u] # NoPath
                  /\ LET src == url_mapping[u]
                         target == TargetOf(src)
                     IN IF Exists(target) \/ ~Exists(src)
                        THEN UNCHANGED dl_disk
                        ELSE /\ HasFreeId
                             /\ Disk([fs_names EXCEPT ![target] = FreeId], handle,
                                     [fs_data EXCEPT ![FreeId] = fs_data[fs_names[src]]])
                  /\ report' = [report EXCEPT ![t] = "copied"]
                  /\ UNCHANGED <<pc, task>>
             ELSE /\ pc' = [pc EXCEPT ![w] = "head"]
                  /\ task' = [task EXCEPT ![w] = t]
                  /\ UNCHANGED <<dl_disk, report>>
    /\ UNCHANGED <<dl_inputs, url_mapping, saved_mapping, attempt, temp_path, range_from,
                   stream, result, net_used, wrote_map, waits, produced>>
    /\ UNCHANGED <<rl_vars, sc_vars, px_vars, fn_vars>>

\* the HEAD request of the first attempts: it yields the filename, or it fails
HeadRequest(w) ==
    /\ pc[w] = "head"
    /\ net_used' = [net_used EXCEPT ![task[w]] = TRUE]
    /\ \E ok \in BOOLEAN :
         IF ok
         THEN /\ temp_path' = [temp_path EXCEPT
                                 ![w] = TempOf(LocalPath(TaskDir, srv_name[UrlOf(w)]))]
              /\ pc' = [pc EXCEPT ![w] = "range"]
              /\ UNCHANGED <<waits, attempt, range_from, stream>>
         ELSE /\ Except(w)
              /\ UNCHANGED temp_path
    /\ UNCHANGED <<dl_inputs, dl_disk, url_mapping, saved_mapping, next_task, task, result,
                   report, hit, wrote_map, produced>>
    /\ UNCHANGED <<rl_vars, sc_vars, px_vars, fn_vars>>

\* if os.path.exists(temp_path): resume_header['Range'] = bytes=<size>-
CheckTemp(w) ==
    /\ pc[w] = "range"
    /\ range_from' = [range_from EXCEPT
                        ![w] = IF Exists(temp_path[w]) THEN Size(temp_path[w]) ELSE NoRange]
    /\ pc' = [pc EXCEPT ![w] = "get"]
    /\ UNCHANGED <<dl_inputs, dl_disk, url_mapping, saved_mapping, next_task, task, attempt,
                   temp_path, stream, result, report, hit, net_used, wrote_map, waits,
                   produced>>
    /\ UNCHANGED <<rl_vars, sc_vars, px_vars, fn_vars>>

\* the GET request and open(temp_path, 'ab'): the request fails, or the response
\* starts to stream into the temp file, which is created when it is missing
GetRequest(w) ==
    /\ pc[w] = "get"
    /\ net_used' = [net_used EXCEPT ![task[w]] = TRUE]
    /\ \E ok \in BOOLEAN :
         IF ok /\ ~RangeError(range_from[w])
         THEN /\ stream' = [stream EXCEPT ![w] = Response(UrlOf(w), range_from[w])]
              /\ range_from' = [range_from EXCEPT ![w] = NoRange]
              /\ pc' = [pc EXCEPT ![w] = "write"]
              /\ IF Exists(temp_path[w])
                 THEN Disk(fs_names, [handle EXCEPT ![w] = fs_names[temp_path[w]]],
                           fs_data)
                 ELSE /\ HasFreeId
                      /\ Disk([fs_names EXCEPT ![temp_path[w]] = FreeId],
                              [handle EXCEPT ![w] = FreeId], fs_data)
              /\ UNCHANGED <<waits, attempt>>
         ELSE /\ Except(w)
              /\ UNCHANGED dl_disk
    /\ UNCHANGED <<dl_inputs, url_mapping, saved_mapping, next_task, task, temp_path,
                   result, report, hit, wrote_map, produced>>
    /\ UNCHANGED <<rl_vars, sc_vars, px_vars, fn_vars>>

\* f.write(chunk): the chunk is appended to the open file
WriteChunk(w) ==
    /\ pc[w] = "write"
    /\ stream[w] # <<>>
    /\ Disk(fs_names, handle,
            [fs_data EXCEPT ![handle[w]] = Append(fs_data[handle[w]], Head(stream[w]))])
    /\ stream' = [stream EXCEPT ![w] = Tail(stream[w])]
    /\ UNCHANGED <<dl_inputs, url_mapping, saved_mapping, next_task, pc, task, attempt,
                   temp_path, range_from, result, report, hit, net_used, wrote_map, waits,
                   produced>>
    /\ UNCHANGED <<rl_vars, sc_vars, px_vars, fn_vars>>

\* iter_content raises a RequestException: the file is closed, the except branch runs
StreamFail(w) ==
    /\ pc[w] = "write"
    /\ Disk(fs_names, [handle EXCEPT ![w] = 0], fs_data)
    /\ Except(w)
    /\ UNCHANGED <<dl_inputs, url_mapping, saved_mapping, next_task, task, temp_path,
                   result, report, hit, net_used, wrote_map, produced>>
    /\ UNCHANGED <<rl_vars, sc_vars, px_vars, fn_vars>>

\* the response is exhausted and the file closed: shutil.move(temp_path, local_path);
\* return local_path. A missing temp file raises FileNotFoundError, which no except
\* branch catches: the task ends with it
Move(w) ==
    /\ pc[w] = "write"
    /\ stream[w] = <<>>
    /\ LET tp == temp_path[w]
           lp == LocalOf(tp)
       IN IF Exists(tp)
          THEN /\ Disk([fs_names EXCEPT ![lp] = fs_names[tp], ![tp] = 0],
                       [handle EXCEPT ![w] = 0], fs_data)
               /\ produced' = [produced EXCEPT ![lp] = UrlOf(w)]
               /\ result' = [result EXCEPT ![w] = lp]
               /\ pc' = [pc EXCEPT ![w] = "ret"]
               /\ UNCHANGED <<report, task, attempt, temp_path, range_from, stream, waits>>
          ELSE /\ Disk(fs_names, [handle EXCEPT ![w] = 0], fs_data)
               /\ report' = [report EXCEPT ![task[w]] = "move_error"]
               /\ Leave(w)
               /\ UNCHANGED produced
    /\ UNCHANGED <<dl_inputs, url_mapping, saved_mapping, next_task, hit, net_used,
                   wrote_map>>
    /\ UNCHANGED <<rl_vars, sc_vars, px_vars, fn_vars>>

\* the last attempt has failed: if temp_path and os.path.exists(temp_path):
Cleanup(w) ==
    /\ pc[w] = "cleanup"
    /\ IF temp_path[w] # NoPath /\ Exists(temp_path[w])
       THEN pc' = [pc EXCEPT ![w] = "remove"]
       ELSE pc' = [pc EXCEPT ![w] = "ret"]
    /\ UNCHANGED <<dl_inputs, dl_disk, url_mapping, saved_mapping, next_task, task, attempt,
                   temp_path, range_from, stream, result, report, hit, net_used,
                   wrote_map, waits, produced>>
    /\ UNCHANGED <<rl_vars, sc_vars, px_vars, fn_vars>>

\* os.remove(temp_path); return None. A missing file raises FileNotFoundError inside
\* the except branch: the task ends with it
Remove(w) ==
    /\ pc[w] = "remove"
    /\ IF Exists(temp_path[w])
       THEN /\ Disk([fs_names EXCEPT ![temp_path[w]] = 0], handle, fs_data)
            /\ pc' = [pc EXCEPT ![w] = "ret"]
            /\ UNCHANGED <<report, task, attempt, temp_path, range_from, stream, result, waits>>
       ELSE /\ report' = [report EXCEPT ![task[w]] = "remove_error"]
            /\ Leave(w)
            /\ UNCHANGED dl_disk
    /\ UNCHANGED <<dl_inputs, url_mapping, saved_mapping, next_task, hit, net_used,
                   wrote_map, produced>>
    /\ UNCHANGED <<rl_vars, sc_vars, px_vars, fn_vars>>

\* back in _process_single_url: if local_path: self.url_mapping[url] = local_path
Record(w) ==
    /\ pc[w] = "ret"
    /\ IF Records(result[w])
       THEN /\ url_mapping' = [url_mapping EXCEPT ![UrlOf(w)] = result[w]]
            /\ wrote_map' = [wrote_map EXCEPT ![task[w]] = TRUE]
            /\ report' = [report EXCEPT ![task[w]] = "downloaded"]
       ELSE /\ report' = [report EXCEPT ![task[w]] = "failed"]
            /\ UNCHANGED <<url_mapping, wrote_map>>
    /\ Leave(w)
    /\ UNCHANGED <<dl_inputs, dl_disk, saved_mapping, next_task, hit, net_used, produced>>
    /\ UNCHANGED <<rl_vars, sc_vars, px_vars, fn_vars>>

\* a plausible slip: the mapping is saved once every task has been handed out
AllDoneNoWait == next_task > Len(tasks)

\* the loop over as_completed(futures) has ended and the executor has shut down:
\* every future has completed, with a result or with an exception
AllDone == next_task > Len(tasks) /\ \A w \in Workers : pc[w] = "idle"

\* every future has completed: self._save_mapping()
SaveMapping ==
    /\ AllDone
    /\ Len(saved_mapping) = 0
    /\ saved_mapping' = Append(saved_mapping, url_mapping)
    /\ UNCHANGED <<dl_inputs, dl_disk, url_mapping, next_task, pc, task, attempt,
                   temp_path, range_from, stream, result, report, hit, net_used,
                   wrote_map, waits, produced>>
    /\ UNCHANGED <<rl_vars, sc_vars, px_vars, fn_vars>>

(***************************************************************************)
(* The proxy rotation counter of the download workers                      *)
(***************************************************************************)

\* enable_proxy is set and proxy_list holds NumProxies proxies
ProxyInit ==
    /\ current_proxy_index = 0
    /\ px_pc = [w \in Workers |-> "idle"]
    /\ px_reg = [w \in Workers |-> 0]
    /\ px_pick = [w \in Workers |-> 0]
    /\ px_ops = 0

\* the updates of the counter begun so far
ProxyBegun == px_ops + Cardinality({w \in Workers : px_pc[w] # "idle"})

\* a worker is in _get_next_proxy (kind "select": proxy = proxy_list[index % len])
\* or in the except branch of download_with_retry (kind "advance"), and
\* self.current_proxy_index += 1 reads the counter
ProxyLoad(w) ==
    /\ px_pc[w] = "idle"
    /\ ProxyBegun < MaxProxyOps
    /\ \E kind \in {"select", "advance"} :
         /\ px_pc' = [px_pc EXCEPT ![w] = kind]
         /\ px_pick' = IF kind = "select"
                       THEN [px_pick EXCEPT ![w] = current_proxy_index % NumProxies]
                       ELSE px_pick
    /\ px_reg' = [px_reg EXCEPT ![w] = current_proxy_index]
    /\ UNCHANGED <<current_proxy_index, px_ops>>
    /\ UNCHANGED <<rl_vars, sc_vars, dl_vars, fn_vars>>

\* self.current_proxy_index += 1 stores the sum of the value it read and 1; no lock
\* is held between the read and the store
ProxyStore(w) ==
    /\ px_pc[w] # "idle"
    /\ current_proxy_index' = px_reg[w] + 1
    /\ px_ops' = px_ops + 1
    /\ px_pc' = [px_pc EXCEPT ![w] = "idle"]
    /\ px_reg' = [px_reg EXCEPT ![w] = 0]
    /\ UNCHANGED px_pick
    /\ UNCHANGED <<rl_vars, sc_vars, dl_vars, fn_vars>>

(***************************************************************************)
(* _extract_filename_from_response                                         *)
(* Texts are sequences of characters; "%2E" is a percent-encoded dot,      *)
(* "'" a quote, "UTF-8''" the charset prefix of an extended directive.     *)
(***************************************************************************)

\* no filename has been returned; an empty name, which the function can return, is <<>>
Unresolved == <<"unresolved">>

\* urllib.parse.unquote
Unquote(t) == [i \in DOMAIN t |-> IF t[i] = "%2E" THEN "." ELSE t[i]]

\* str.strip of the quote characters
RECURSIVE Strip(_)
Strip(t) ==
    IF t = <<>> THEN t
    ELSE IF Head(t) = "'" THEN Strip(Tail(t))
    ELSE IF t[Len(t)] = "'" THEN Strip(SubSeq(t, 1, Len(t) - 1))
    ELSE t

\* (?:UTF-8'')? of the pattern of the extended directive
DropCharset(t) == IF t # <<>> /\ Head(t) = "UTF-8''" THEN Tail(t) ELSE t

HasDot(t) == \E i \in DOMAIN t : t[i] = "."

\* re.search: the text of the first directive of the header with that key, or <<>>
Directive(disp, key) ==
    IF \E i \in DOMAIN disp : disp[i].key = key
    THEN disp[CHOOSE i \in DOMAIN disp :
                /\ disp[i].key = key
                /\ \A j \in DOMAIN disp : disp[j].key = key => i <= j].text
    ELSE <<>>

\* a plausible slip: the basic directive is tried before the extended one
FromDispositionBasicFirst(disp) ==
    IF Directive(disp, "filename") # <<>>
    THEN Strip(Directive(disp, "filename"))
    ELSE IF Unquote(DropCharset(Directive(disp, "filename*"))) # <<>>
    THEN Strip(Unquote(DropCharset(Directive(disp, "filename*"))))
    ELSE Unresolved

\* the filename of the Content-Disposition header: of filename*= if it matches, else
\* of filename= if it matches, else none
FromDisposition(disp) ==
    IF Unquote(DropCharset(Directive(disp, "filename*"))) # <<>>
    THEN Strip(Unquote(DropCharset(Directive(disp, "filename*"))))
    ELSE IF Directive(disp, "filename") # <<>>
    THEN Strip(Directive(disp, "filename"))
    ELSE Unresolved

\* response.headers.get('Content-Type', '').split(';')[0]
TypeOf(type) == IF type = <<>> THEN "" ELSE type[1]

\* ext_map.get(content_type, '.tmp')
ExtMap(t) ==
    CASE t = "image/jpeg" -> ".jpg"
      [] t = "image/png" -> ".png"
      [] t = "image/gif" -> ".gif"
      [] t = "image/webp" -> ".webp"
      [] t = "image/svg+xml" -> ".svg"
      [] t = "application/octet-stream" -> ".bin"
      [] OTHER -> ".tmp"

\* hashlib.md5(url.encode()).hexdigest()[:8]
UrlHash == <<"md5[:8]">>

\* _extract_filename_from_response(response, url)
ExtractFilename(disp, seg, type) ==
    IF disp # <<>> /\ FromDisposition(disp) # Unresolved
    THEN FromDisposition(disp)
    ELSE IF seg # <<>> /\ HasDot(seg)
    THEN Unquote(seg)
    ELSE UrlHash \o <<ExtMap(TypeOf(type))>>

Attachment == [key |-> "attachment", text |-> <<>>]
ExtendedDirectives ==
    {[key |-> "filename*", text |-> t] :
        t \in {<<"e", ".", "j">>, <<"UTF-8''", "e", "%2E", "j">>, <<"'", "e", "'">>,
                <<"'", "'">>}}
BasicDirectives ==
    {[key |-> "filename", text |-> t] :
        t \in {<<"b", ".", "j">>, <<"'", "b", ".", "j", "'">>, <<"'", "'">>}}

\* the Content-Disposition headers: none, one without a filename, one with either
\* directive, one with both in either order
Dispositions ==
    {<<>>, <<Attachment>>}
    \cup {<<Attachment, d>> : d \in ExtendedDirectives \cup BasicDirectives}
    \cup {<<Attachment, e, b>> : e \in ExtendedDirectives, b \in BasicDirectives}
    \cup {<<Attachment, b, e>> : e \in ExtendedDirectives, b \in BasicDirectives}

\* the last path segments: none, one without a dot, one with a dot, one with an
\* encoded dot only, one with both
Segments ==
    {<<>>, <<"d">>, <<"p", ".", "j">>, <<"p", "%2E", "j">>, <<"p", "%2E", "j", ".", "x">>}

\* the Content-Type headers: none, known ones (one with a parameter), an unknown one
ContentTypes ==
    {<<>>, <<"image/png">>, <<"image/jpeg", "charset=binary">>, <<"text/html">>}

FilenameInit ==
    /\ fn_disposition \in Dispositions
    /\ fn_segment \in Segments
    /\ fn_type \in ContentTypes
    /\ fn_name = Unresolved

FilenameIdle ==
    /\ fn_disposition = <<>>
    /\ fn_segment = <<>>
    /\ fn_type = <<>>
    /\ fn_name = Unresolved

\* filename = self._extract_filename_from_response(response, url)
ResolveFilename ==
    /\ fn_name = Unresolved
    /\ fn_name' = ExtractFilename(fn_disposition, fn_segment, fn_type)
    /\ UNCHANGED <<fn_disposition, fn_segment, fn_type>>
    /\ UNCHANGED <<rl_vars, sc_vars, dl_vars, px_vars>>

(***************************************************************************)
(* Specifications                                                          *)
(***************************************************************************)

InitRate == RateInit /\ ScraperIdle /\ DownloadIdle /\ ProxyInit /\ FilenameIdle

NextRate ==
    \/ Tick
    \/ AcquireEnter(1)
    \/ AcquireWake(1)
    \/ AcquireAppend(1)

\* acquire() called again and again by one caller
SpecRate == InitRate /\ [][NextRate]_vars

InitScraper == ScraperInit /\ RateIdle /\ DownloadIdle /\ ProxyInit /\ FilenameIdle

NextScraper ==
    \/ Initialize
    \/ NavigateToTarget
    \/ ClickLoadMoreButton
    \/ LoopHead
    \/ ScrollPage
    \/ CountNoLoad
    \/ ExtractDownloadLinks
    \/ CleanOldImages
    \/ CheckThreshold
    \/ FlowEnd
    \/ FinallySave
    \/ Close

\* one discovery session
SpecScraper == InitScraper /\ [][NextScraper]_vars

\* one discovery session in which every await returns: a step that can be taken is
\* taken in the end
SpecScraperFair == SpecScraper /\ WF_vars(NextScraper)

NextDownload ==
    \/ \E w \in Workers : Process(w)
    \/ \E w \in Workers : HeadRequest(w)
    \/ \E w \in Workers : CheckTemp(w)
    \/ \E w \in Workers : GetRequest(w)
    \/ \E w \in Workers : WriteChunk(w)
    \/ \E w \in Workers : StreamFail(w)
    \/ \E w \in Workers : Move(w)
    \/ \E w \in Workers : Cleanup(w)
    \/ \E w \in Workers : Remove(w)
    \/ \E w \in Workers : Record(w)
    \/ SaveMapping

InitDownload == DownloadInit /\ RateIdle /\ ScraperIdle /\ ProxyInit /\ FilenameIdle

\* process_all: the tasks of one category file over the worker pool
SpecDownload == InitDownload /\ [][NextDownload]_vars

InitSingle == SingleInit /\ RateIdle /\ ScraperIdle /\ ProxyInit /\ FilenameIdle

\* process_all over a category file of one URL
SpecSingle == InitSingle /\ [][NextDownload]_vars

\* the steps of the pool when max_workers = 1
NextSerial ==
    \/ Process(1)
    \/ HeadRequest(1)
    \/ CheckTemp(1)
    \/ GetRequest(1)
    \/ WriteChunk(1)
    \/ StreamFail(1)
    \/ Move(1)
    \/ Cleanup(1)
    \/ Remove(1)
    \/ Record(1)
    \/ SaveMapping

\* process_all with max_workers = 1: the tasks run one after the other
SpecSerial == InitDownload /\ [][NextSerial]_vars

NextRateShared ==
    \/ Tick
    \/ \E c \in Callers : AcquireEnter(c)
    \/ \E c \in Callers : AcquireWake(c)
    \/ \E c \in Callers : AcquireAppend(c)

\* acquire() called by two coroutines, interleaved at its await
SpecRateShared == InitRate /\ [][NextRateShared]_vars

NextScraperCancel ==
    \/ Initialize
    \/ NavigateToTarget
    \/ ClickLoadMoreButton
    \/ LoopHead
    \/ ScrollPage
    \/ CountNoLoad
    \/ ExtractDownloadLinks
    \/ CleanOldImages
    \/ CheckThreshold
    \/ FlowEnd
    \/ FinallySave
    \/ Close
    \/ Cancel

\* one discovery session whose task may be cancelled from outside
SpecScraperCancel == InitScraper /\ [][NextScraperCancel]_vars

\* the tasks of one category file whose bodies are one chunk long
InitDownloadFair ==
    /\ DownloadStart(TaskLists, PoolRetries, 1, Scenarios)
    /\ RateIdle /\ ScraperIdle /\ ProxyInit /\ FilenameIdle

\* process_all, every enabled step of which is taken in the end: the threads of
\* the pool run, and every request and file operation returns
SpecDownloadFair == InitDownloadFair /\ [][NextDownload]_vars /\ WF_vars(NextDownload)

NextProxy ==
    \/ \E w \in Workers : ProxyLoad(w)
    \/ \E w \in Workers : ProxyStore(w)

InitProxy == ProxyInit /\ RateIdle /\ ScraperIdle /\ DownloadIdle /\ FilenameIdle

\* the updates of current_proxy_index by the threads of the pool
SpecProxy == InitProxy /\ [][NextProxy]_vars

InitFilename == FilenameInit /\ RateIdle /\ ScraperIdle /\ DownloadIdle /\ ProxyInit

\* one call of _extract_filename_from_response
SpecFilename == InitFilename /\ [][ResolveFilename]_vars

(***************************************************************************)
(* Claims                                                                  *)
(***************************************************************************)

\* the timestamps recorded inside the closed window [t, t + time_window]
InWindow(t) == {i \in DOMAIN admitted : admitted[i] >= t /\ admitted[i] <= t + time_window}

\* C1: with one sequential caller, every sliding window of duration time_window
\* holds at most max_requests recorded acquire() timestamps.
C1_WindowBound ==
    \A t \in 0..MaxTime : Cardinality(InWindow(t)) <= max_requests

\* C1 witness: acquire() has slept on a full window and recorded its timestamp after
C1_Witness ==
    /\ Len(admitted) > max_requests
    /\ rl_wake[1] > 0
    /\ rl_pc[1] = "idle"

\* the number of False results at the end of the history of scroll results
RECURSIVE TrailingFalse(_)
TrailingFalse(s) ==
    IF s = <<>> \/ s[Len(s)] THEN 0 ELSE 1 + TrailingFalse(SubSeq(s, 1, Len(s) - 1))

\* C4: the no-growth counter is the number of consecutive non-growing scroll calls
\* since the last growing one (reset to 0 by growth, plus one otherwise), and the loop
\* stops for "no more content" exactly at the scroll call that makes it reach 3.
C4_NoGrowthCounter ==
    /\ sc_pc # "count" => no_load_count = TrailingFalse(scroll_results)
    /\ sc_pc = "count" =>
         no_load_count = TrailingFalse(SubSeq(scroll_results, 1, Len(scroll_results) - 1))
    /\ stop_reason = "no_more_content" => TrailingFalse(scroll_results) = NoLoadLimit
    /\ (TrailingFalse(scroll_results) >= NoLoadLimit /\ sc_pc # "count")
         => stop_reason = "no_more_content"

\* C4 witness: growth reset the counter after a non-growing call, and later the loop
\* stopped on the third consecutive non-growing call
C4_Witness ==
    /\ stop_reason = "no_more_content"
    /\ \E i, j \in DOMAIN scroll_results :
         i < j /\ ~scroll_results[i] /\ scroll_results[j]

\* the files of the directory of the category
InTaskDir == {p \in Paths : p[1] = TaskDir /\ Exists(p)}
FinalPaths == {p \in Paths : p[3] = "final"}
\* the URLs whose download was recorded
Succeeded == {tasks[t] : t \in {x \in DOMAIN tasks : report[x] = "downloaded"}}

\* C2: a call of _process_single_url for a URL that is in url_mapping with its file on
\* disk issues no HEAD and no GET, leaves url_mapping alone, and the mapped file is in
\* the directory of the category afterwards.
C2_CachedNoNetwork ==
    \A t \in DOMAIN tasks :
        hit[t] => /\ report[t] = "copied"
                  /\ ~net_used[t]
                  /\ ~wrote_map[t]
                  /\ url_mapping[tasks[t]] # NoPath
                  /\ Exists(TargetOf(url_mapping[tasks[t]]))

\* C2 witness: a cached URL of an earlier category was copied into the directory
C2_Witness ==
    /\ scenario = "cached"
    /\ \E t \in DOMAIN tasks : hit[t] /\ report[t] = "copied"
    /\ Exists(LocalPath(TaskDir, "a"))
    /\ produced[LocalPath(TaskDir, "a")] = Blank

\* C3: whatever attempts failed before the successful one, the file that
\* download_with_retry promotes to the final name holds exactly the body of the URL,
\* no chunk duplicated and none missing.
C3_ResumeCorrect ==
    \A w \in Workers :
        (pc[w] = "ret" /\ result[w] # NoPath)
            => fs_data[fs_names[result[w]]] = FullStream(UrlOf(w))

\* C5: from an empty mapping, when process_all has saved the mapping, the saved
\* document has an entry for exactly the URLs that succeeded, the directory of the
\* category holds exactly one file per succeeded URL, and every other URL was
\* reported as failed.
C5_EndToEnd ==
    (scenario = "empty" /\ Len(saved_mapping) = 1) =>
        /\ {u \in URLs : saved_mapping[1][u] # NoPath} = Succeeded
        /\ Cardinality(InTaskDir) = Cardinality(Succeeded)
        /\ \A t \in DOMAIN tasks :
              (tasks[t] # Blank /\ tasks[t] \notin Succeeded) => report[t] = "failed"

\* C6: download_with_retry makes at most max_retries attempts, and when every attempt
\* has failed it returns None, with no exception raised and with no temp file of that
\* download left (a temp path that another running download shares is not judged).
C6_Exhaustion ==
    /\ \A w \in Workers : attempt[w] < max_retries
    /\ \A t \in DOMAIN tasks : report[t] # "remove_error"
    /\ \A w \in Workers :
          (/\ pc[w] = "ret"
           /\ result[w] = NoPath
           /\ temp_path[w] # NoPath
           /\ \A v \in Workers \ {w} : temp_path[v] # temp_path[w])
              => ~Exists(temp_path[w])

\* the base waits of the claim: 1, 2, 4, 8, 16, 32, and 32 from there on
BackoffTable == <<1, 2, 4, 8, 16, 32, 32, 32, 32>>

\* C7: the base wait after the failed attempt k (0-based, not the last) is
\* 2^min(k,5): 1,2,4,8,16,32 and then 32; the waits never decrease, and there is one
\* wait between every two consecutive attempts.
C7_Backoff ==
    \A w \in Workers :
        /\ Len(waits[w]) = attempt[w]
        /\ \A k \in DOMAIN waits[w] :
              /\ waits[w][k] = BackoffTable[k]
              /\ k > 1 => waits[w][k - 1] <= waits[w][k]

\* C7 witness: the last attempt of ten is running, nine waits behind it
C7_Witness ==
    \E w \in Workers :
        /\ attempt[w] = DefaultMaxRetries - 1
        /\ Len(waits[w]) = DefaultMaxRetries - 1
        /\ pc[w] = "write"

\* C8: no chunk is about to be written into a file that has a final name, and a file
\* that a download promoted to a final name holds every chunk of the body of its URL.
C8_AtomicPromotion ==
    /\ \A w \in Workers : \A p \in FinalPaths :
          (handle[w] # 0 /\ stream[w] # <<>>) => fs_names[p] # handle[w]
    /\ \A p \in FinalPaths :
          (produced[p] # Blank /\ Exists(p)) =>
              \A i \in 1..content_len :
                  \E j \in DOMAIN fs_data[fs_names[p]] :
                      fs_data[fs_names[p]][j] = <<produced[p], i>>

\* C9: url_mapping changes only when download_with_retry has returned a final path
\* for that URL, and then to that path; a download that returned None leaves
\* url_mapping as it was and is reported as failed; a task that has ended is never
\* handed out again.
C9_MappingOnlyOnSuccess ==
    [][/\ \A u \in URLs :
            url_mapping'[u] # url_mapping[u] =>
                \E w \in Workers : /\ pc[w] = "ret"
                                    /\ UrlOf(w) = u
                                    /\ result[w] # NoPath
                                    /\ url_mapping'[u] = result[w]
       /\ \A w \in Workers :
            (pc[w] = "ret" /\ result[w] = NoPath /\ pc'[w] = "idle") =>
                /\ url_mapping' = url_mapping
                /\ report'[task[w]] = "failed"
       /\ \A t \in DOMAIN tasks : report[t] # "pending" => report'[t] = report[t]
       /\ \A w \in Workers :
            (task'[w] # task[w] /\ task'[w] # 0) =>
                (task'[w] = next_task /\ next_task' = next_task + 1)
       /\ next_task' >= next_task]_vars

\* C9 witness: one download failed for good, another was recorded
C9_Witness ==
    \E t1, t2 \in DOMAIN tasks :
        /\ report[t1] = "failed"
        /\ report[t2] = "downloaded"
        /\ url_mapping[tasks[t1]] = NoPath
        /\ url_mapping[tasks[t2]] # NoPath

\* C10: no two workers are ever downloading the same URL at the same time.
C10_NoDuplicateDownload ==
    \A v, w \in Workers :
        (v # w /\ task[v] # 0 /\ task[w] # 0) => UrlOf(v) # UrlOf(w)

\* the links that some link file holds
Written == UNION {link_files[i].links : i \in DOMAIN link_files}
\* start() has returned, or has ended with an exception
Ended == sc_pc \in {"done", "raised"}

\* C11: however the session ended, once start() is over every link that was
\* collected is in a link file and the browser is not left open.
C11_FlushAndRelease ==
    Ended => (browser # "open" /\ collected \subseteq Written)


\* the mapping has been persisted while every submitted task had completed
SavedAfterAll ==
    Len(saved_mapping) = 1 =>
        /\ \A t \in DOMAIN tasks : report[t] # "pending"
        /\ \A w \in Workers : pc[w] = "idle"
        /\ saved_mapping[1] = url_mapping

C13_NavigateFatal ==
    stop_reason = "navigate_error" =>
        /\ sc_pc \in {"finally", "close", "done"}
        /\ scroll_count = 0 /\ scroll_results = <<>>
        /\ retry_count = 0 /\ backoffs = <<>>
        /\ download_links = {} /\ collected = {} /\ link_files = <<>>
        /\ (sc_pc = "done" => browser = "closed")

\* a session whose navigation failed has ended, cleaned up
C13_Witness ==
    stop_reason = "navigate_error" /\ sc_pc = "done" /\ browser = "closed"

\* the retry loop of click_load_more_button or scroll_page is at its k-th failure
RetryState ==
    /\ retry_count <= MAX_RETRIES
    /\ (sc_pc \in {"click", "scroll"} => retry_count < MAX_RETRIES)
    /\ Len(backoffs) = Min(retry_count, MAX_RETRIES - 1)
    /\ \A k \in DOMAIN backoffs : backoffs[k] = RETRY_BACKOFF_FACTOR ^ k

\* the step that uses up the retries returns False to the flow, which goes on
SoftFailure ==
    (retry_count' = MAX_RETRIES /\ retry_count < MAX_RETRIES) =>
        /\ sc_pc = "click" => sc_pc' = "loop"
        /\ sc_pc = "scroll" => /\ sc_pc' = "count"
                               /\ scroll_results' = Append(scroll_results, FALSE)
        /\ stop_reason' = stop_reason
        /\ browser' = browser

LoopBelowThreshold ==
    sc_pc = "loop" => Cardinality(download_links) < save_threshold

\* after the threshold branch the set is empty and its links are in a link file
ThresholdFlushed ==
    stop_reason = "threshold" => (download_links = {} /\ collected \subseteq Written)

\* no link is in two link files
FlushedOnce ==
    \A i, j \in DOMAIN link_files :
        i # j => link_files[i].links \cap link_files[j].links = {}

\* C15: when the count reaches the save threshold the set is written to a link file
\* and cleared and the loop ends, and no link is written a second time at the end
\* of the session.
C15_ThresholdFlush == LoopBelowThreshold /\ ThresholdFlushed /\ FlushedOnce

\* the admissions inside the trailing window (t - time_window, t]
Trailing(t) ==
    {i \in DOMAIN admitted : admitted[i] > t - time_window /\ admitted[i] <= t}

\* C16: with several callers interleaved at the await of acquire(), the window of
\* duration time_window that ends at any admission still holds at most max_requests
\* admissions.
C16_SharedWindowBound ==
    \A i \in DOMAIN admitted : Cardinality(Trailing(admitted[i])) <= max_requests

\* C17: no increment of the proxy counter is lost: when no update is in progress
\* the counter equals the number of selections and retry advances made so far.
C17_NoLostUpdate ==
    (\A w \in Workers : px_pc[w] = "idle") => current_proxy_index = px_ops

\* task t is processed while the entry of its URL points at a file that is gone:
\* the mapping was loaded with such an entry and no earlier task has replaced it
StaleTask(t) ==
    /\ scenario = "stale"
    /\ tasks[t] = "u1"
    /\ \A s \in 1..(t - 1) : tasks[s] = "u1" => ~wrote_map[s]

\* C18: a task whose URL has a stale mapping entry raises no error and is not
\* served from the cache: it goes to the network, and when the download succeeds
\* the entry of the URL is the new path, whose file exists.
C18_StaleEntry ==
    \A t \in DOMAIN tasks :
        StaleTask(t) =>
            /\ ~hit[t]
            /\ report[t] \in {"pending", "downloaded", "failed"}
            /\ (report[t] # "pending" => net_used[t])
            /\ (report[t] = "downloaded" =>
                   /\ wrote_map[t]
                   /\ url_mapping["u1"] = LocalPath(TaskDir, srv_name["u1"])
                   /\ url_mapping["u1"] # Mapping0("stale")["u1"]
                   /\ Exists(url_mapping["u1"]))

\* a URL with a stale entry has been downloaded again and its entry replaced
C18_Witness ==
    \E t \in DOMAIN tasks :
        /\ StaleTask(t)
        /\ report[t] = "downloaded"
        /\ url_mapping["u1"] = LocalPath(TaskDir, srv_name["u1"])
        /\ ~Exists(Mapping0("stale")["u1"])

\* the session was stopped inside a pass of the loop, not between two passes
StoppedMidIteration == cancelled_at \in {"scroll", "extract", "clean"}

\* C19: a stop signal takes effect only between two passes of the discovery loop,
\* and a stopped session has, when start() is over, written its unflushed links and
\* released the browser.
C19_StopBetweenIterations ==
    stop_reason = "cancelled" =>
        /\ ~StoppedMidIteration
        /\ (Ended => (browser # "open" /\ collected \subseteq Written))

\* the header carries a directive of that key
Present(key) == \E i \in DOMAIN fn_disposition : fn_disposition[i].key = key

\* the names the directives of the headers denote, by kind, and those of the
\* path segments with a dot
ExtendedNames == {<<"e", ".", "j">>, <<"e">>, <<>>}
BasicNames == {<<"b", ".", "j">>, <<>>}
SegmentNames == {<<"p", ".", "j">>, <<"p", ".", "j", ".", "x">>}

\* the extension the table gives the media type of the header, if it has one
KnownExtension ==
    IF fn_type = <<"image/png">> THEN <<".png">>
    ELSE IF fn_type = <<"image/jpeg", "charset=binary">> THEN <<".jpg">>
    ELSE <<>>

\* C20: the filename comes from the extended directive of Content-Disposition when
\* the header has one, else from its basic directive, else it is the decoded last
\* path segment when that segment has a dot, else the hash of the URL with the
\* extension of the Content-Type, else the hash with the generic extension.
C20_FilenamePriority ==
    fn_name # Unresolved =>
        IF Present("filename*") THEN fn_name \in ExtendedNames
        ELSE IF Present("filename") THEN fn_name \in BasicNames
        ELSE IF \E i \in DOMAIN fn_segment : fn_segment[i] = "."
        THEN fn_name \in SegmentNames
        ELSE IF KnownExtension # <<>> THEN fn_name = <<"md5[:8]">> \o KnownExtension
        ELSE fn_name = <<"md5[:8]", ".tmp">>

\* a header with the basic directive ahead of the extended one, and a URL segment
\* with a dot, resolved to the name of the extended directive
C20_Witness ==
    /\ fn_name = <<"e", ".", "j">>
    /\ Len(fn_disposition) = 3
    /\ fn_disposition[2].key = "filename"
    /\ fn_disposition[3].text = <<"UTF-8''", "e", "%2E", "j">>
    /\ fn_segment = <<"p", ".", "j">>

\* the step is a flush: the threshold branch of the loop, or the save of the
\* finally block of start() with links in the set
FlushStep ==
    \/ sc_pc = "threshold" /\ current_count >= save_threshold
    \/ sc_pc = "finally" /\ download_links # {}

\* the flush writes the set to the file of the new total, empties the set and adds
\* the number of links to the total
FlushEffect ==
    FlushStep =>
        /\ link_files' = Append(link_files,
                                [count |-> total_saved_links + Cardinality(download_links),
                                 links |-> download_links])
        /\ download_links' = {}
        /\ total_saved_links' = total_saved_links + Cardinality(download_links)

\* C21: every flush, at the threshold and at the end of the session, writes the
\* members of the set to the file named by the new cumulative count, leaves the set
\* empty and raises the running total by the number of links flushed.
C21_FlushEffect == [][FlushEffect]_vars

\* C22: when click_load_more_button returns because the button is absent, it has
\* acquired no rate-limiter token.
C22_LocateBeforeToken ==
    (click_result = "absent" /\ scroll_count = 0) => tokens = 0

\* the ways the main loop ends, each with the condition that brings it about
LoopEnding ==
    sc_pc = "flow_end" /\ scroll_count > 0 =>
        /\ stop_reason \in {"no_more_content", "threshold", "max_attempts", "exception"}
        /\ (stop_reason = "no_more_content" => no_load_count >= NoLoadLimit)
        /\ (stop_reason = "threshold" => current_count >= save_threshold)
        /\ (stop_reason = "max_attempts" => scroll_count = MaxScrollAttempts)
        /\ (stop_reason = "exception" => current_count >= save_threshold)

\* C23: the main loop makes at most MAX_SCROLL_ATTEMPTS passes, once entered it
\* always ends, and it ends in one of four ways: the no-growth counter at 3, the
\* link count at the threshold, the ceiling of attempts, an exception.
C23_LoopTerminates ==
    /\ [](scroll_count <= MaxScrollAttempts /\ LoopEnding)
    /\ (sc_pc = "loop" ~> sc_pc = "flow_end")

\* the loop has run to the ceiling of attempts and ended there
C23_Witness ==
    /\ sc_pc = "flow_end"
    /\ stop_reason = "max_attempts"
    /\ scroll_count = MaxScrollAttempts

\* after the scroll of a pass, and the update of its counter, comes the extract
ExtractFollowsScroll == sc_pc = "count" => sc_pc' = "extract"

\* C24: every pass of the main loop that scrolls goes on to extract, the pass in
\* which the loop ends too (so that the links of the buttons rendered by the last
\* scroll are collected).
C24_ExtractAfterScroll == [][ExtractFollowsScroll]_vars

\* the positions of start() that are a load-more, scroll or extract step, or lie
\* between two of them
InFlow ==
    sc_pc \in {"click", "loop", "scroll", "count", "extract", "clean", "threshold",
               "flow_end"}

\* navigation first and once, the first click once and before the first scroll
SessionOrder ==
    /\ navigations <= 1 /\ click_calls <= 1
    /\ (InFlow => navigations = 1)
    /\ (click_calls = 1 => navigations = 1)
    /\ (scroll_count > 0 => click_calls = 1 /\ click_result # "none")
    /\ (collected # {} => scroll_count > 0)
    /\ (sc_pc = "navigate" => click_calls = 0 /\ scroll_count = 0)

\* the first click, whatever its result, hands over to the scroll loop, and an
\* ended session takes no step
SessionSteps ==
    /\ (sc_pc = "click" /\ sc_pc' # "click") => (sc_pc' = "loop" /\ stop_reason' = "none")
    /\ ~Ended

\* C25: a session navigates once, before any load-more, scroll or extract step;
\* it makes the first load-more call once, before the first scroll, and goes on to
\* the scroll loop also when that call returned False; after it has ended no step
\* runs.
C25_SessionOrder == []SessionOrder /\ [][SessionSteps]_vars

\* a session whose first click returned False went on to collect a link and ended
C25_Witness ==
    /\ sc_pc = "done"
    /\ click_result \in {"absent", "failed"}
    /\ navigations = 1 /\ click_calls = 1
    /\ collected # {}

\* no file is open for append in two workers at once
OneWriter ==
    \A v, w \in Workers :
        (v # w /\ handle[v] # 0) => handle[v] # handle[w]

\* every promoted file holds chunks of one URL only
OneUrlPerFile ==
    \A p \in FinalPaths :
        Exists(p) =>
            \A j, k \in DOMAIN fs_data[fs_names[p]] :
                fs_data[fs_names[p]][j][1] = fs_data[fs_names[p]][k][1]

\* C26: no two download workers append to the same temp file at the same time, and
\* each promoted final file holds the bytes of one URL only.
C26_NoSharedTempFile == OneWriter /\ OneUrlPerFile

\* the links of the buttons the page has rendered and that are no longer on it
RemovedButtons == (1..page_loaded) \ SetOf(page_buttons)

\* C27: a download button is removed from the page only after its link has been
\* added to the collected set.
C27_NoLinkLost == RemovedButtons \subseteq collected

RECURSIVE LinksIn(_)
\* how many links the link files written so far hold
LinksIn(files) ==
    IF files = <<>> THEN 0
    ELSE Cardinality(Head(files).links) + LinksIn(Tail(files))

\* C28: total_saved_links is at every moment the number of links that were written
\* to link files in this session.
C28_TotalMatchesWritten == total_saved_links = LinksIn(link_files)

====
